---- MODULE Spec2Model ----
(***************************************************************************)
(* The game-state engine of the memory-matching card game in               *)
(* src/src/App.tsx: the React state of App, its event handlers, its three  *)
(* effects and the callbacks it hands to setTimeout and setInterval.       *)
(*                                                                         *)
(* A state of the model is a committed render of App.  An event handler   *)
(* (a click, a timer callback) runs against the committed state and its   *)
(* batched setState calls give the next commit; the effects whose          *)
(* dependencies changed in a commit run after it (RunEffects) and their    *)
(* setState calls give the commit after.  React runs the pending effects   *)
(* before it handles a click or a timeout.  The callback of the countdown  *)
(* interval calls setTimeLeft only, and the scheduler may take that update *)
(* before the pending effects have run: Tick may precede RunEffects (once: *)
(* effects are not pending for a whole period of the countdown).           *)
(*                                                                         *)
(* Card objects are shared between the arrays that hold them ([...array]   *)
(* copies the array, not the objects), so the flags of the cards live in   *)
(* a heap (flipped, matched: the sets of objects whose flag is true) and   *)
(* an array is a sequence of object references.  Deck positions are        *)
(* 1-based here and 0-based in the source.                                 *)
(***************************************************************************)
EXTENDS Integers, Sequences, FiniteSets, TLC

\* ---- bounds of the model ------------------------------------------------
Pairs == 2
TimeLimit == 2
MaxGames == 2
\* The number of card templates in characterData (18 in the source).
PoolSize == 3

\* ---- program constants --------------------------------------------------
MatchScore == 10
MatchBonus == 5
MismatchPenalty == 2
SlowTimeBonus == 10
\* Delays in units of the countdown period (1000 ms).
MismatchDelay == 1
HintDelay == 3
null == 0

\* The runs explored.  A run dispatches the power-ups of one of these sets,
\* selects the difficulty levels of one of these sets and plays at most the given
\* number of sessions; Shuffle is explored within a single session, a change of
\* level without power-ups.
Players ==
  {[offers |-> {"hint"}, sessions |-> MaxGames, levels |-> {1}],
   [offers |-> {"slowTime"}, sessions |-> MaxGames, levels |-> {1}],
   [offers |-> {"hint", "slowTime"}, sessions |-> 1, levels |-> {1}],
   [offers |-> {"shuffle"}, sessions |-> 1, levels |-> {1}],
   [offers |-> {}, sessions |-> MaxGames, levels |-> {1, 2}]}

\* The difficulty levels (two of them, with bounded numbers); the first is the
\* level selected when the page loads.
difficultyLevels ==
  <<[pairs |-> Pairs, timeLimit |-> TimeLimit],
    [pairs |-> Pairs - 1, timeLimit |-> TimeLimit + 1]>>

VARIABLES
  difficulty,    \* the selected difficulty level
  characters,    \* the deck: a sequence of card objects
  flipped,       \* the card objects whose flipped flag is true
  matched,       \* the card objects whose matched flag is true
  flippedCards,  \* the deck positions flipped and not yet resolved
  matchedPairs, timeLeft, score,
  gameStarted, gameOver, gameWon,
  powerUps,      \* [shuffle, hint, slowTime] -> uses left
  hintCard,      \* the hinted deck position, or null
  timeouts,      \* the pending setTimeout callbacks, in scheduling order
  intervals,     \* the handles of the live setInterval countdowns
  timer,         \* the handle the countdown effect holds for its cleanup
  games,         \* how many times initializeGame has run
  player,        \* the run explored: the power-ups dispatched, the sessions played
  dirty,         \* the effects whose dependencies changed in the last commit
  ticked         \* the interval has fired while those effects were pending

vars == <<difficulty, characters, flipped, matched, flippedCards, matchedPairs, timeLeft,
          score, gameStarted, gameOver, gameWon, powerUps, hintCard, timeouts,
          intervals, timer, games, player, dirty, ticked>>

Range(s) == {s[i] : i \in DOMAIN s}
Max(a, b) == IF a >= b THEN a ELSE b
Min(a, b) == IF a <= b THEN a ELSE b
RemoveAt(s, k) == [i \in 1..(Len(s) - 1) |-> IF i < k THEN s[i] ELSE s[i + 1]]

\* ---- cards ----------------------------------------------------------------
\* Card objects are numbered by the run of initializeGame that made them and
\* their id field; a run makes at most two cards of every template.
NCards == 2 * PoolSize
\* slice(0, difficulty.pairs) keeps at most the templates there are.
selectedCharacters == Min(difficulty.pairs, PoolSize)
NewCards(g) == {(g - 1) * NCards + i : i \in 0..(2 * selectedCharacters - 1)}
\* Two cards of one deck get the same template iff id = index*2 + i agree on index.
name(c) == (c % NCards) \div 2

\* Array.sort with a random comparator leaves the cards in some order.  Every
\* handler addresses a card by its deck position alone, so two deals that differ
\* by a renumbering of the positions behave alike: the model deals one order,
\* with the names interleaved (the cards by id: 0 2 .. 1 3 ..).
Ascending(S) == [i \in 1..Cardinality(S) |-> CHOOSE x \in S : Cardinality({y \in S : y < x}) = i - 1]
Interleaved(S) ==
  LET a == Ascending(S) n == Cardinality(S) IN
  [i \in 1..n |-> IF i <= (n + 1) \div 2 THEN a[2 * i - 1] ELSE a[2 * (i - ((n + 1) \div 2))]]
RandomSort(S) == {Interleaved(S)}

\* The objects some array still references; the others are garbage.
Live(chars, touts) == Range(chars) \cup UNION {Range(touts[k].chars) : k \in DOMAIN touts}

\* ---- effect scheduling ----------------------------------------------------
\* The effects whose dependency lists changed in the commit being made:
\* every setCharacters / setFlippedCards installs a new array (arrays), the
\* other dependencies are compared by value.
Changed(arrays) ==
  (IF arrays THEN {"match"} ELSE {})
  \cup (IF \/ matchedPairs' # matchedPairs
             \/ difficulty'.pairs # difficulty.pairs
             \/ gameStarted' # gameStarted THEN {"win"} ELSE {})
  \cup (IF gameStarted' # gameStarted \/ gameOver' # gameOver THEN {"timer"} ELSE {})

\* ---- initializeGame, startGame, Play Again, Main Menu ---------------------
\* initializeGame without its setPowerUps call.
initializeGame_KeepsPowerUps ==
  /\ games < player.sessions
  /\ games' = games + 1
  /\ \E deck \in RandomSort(NewCards(games + 1)) : characters' = deck
  /\ flipped' = flipped \cap Live(characters', timeouts)
  /\ matched' = matched \cap Live(characters', timeouts)
  /\ flippedCards' = <<>>
  /\ matchedPairs' = 0
  /\ timeLeft' = difficulty.timeLimit
  /\ score' = 0
  /\ gameOver' = FALSE
  /\ gameWon' = FALSE
  /\ powerUps' = powerUps
  /\ hintCard' = null

initializeGame ==
  /\ games < player.sessions
  /\ games' = games + 1
  /\ \E deck \in RandomSort(NewCards(games + 1)) : characters' = deck
  /\ flipped' = flipped \cap Live(characters', timeouts)
  /\ matched' = matched \cap Live(characters', timeouts)
  /\ flippedCards' = <<>>
  /\ matchedPairs' = 0
  /\ timeLeft' = difficulty.timeLimit
  /\ score' = 0
  /\ gameOver' = FALSE
  /\ gameWon' = FALSE
  /\ powerUps' = [shuffle |-> 1, hint |-> 2, slowTime |-> 1]
  /\ hintCard' = null

\* A click on a level of the menu.
setDifficulty(level) ==
  /\ dirty = {}
  /\ ~gameStarted
  /\ difficulty' = difficultyLevels[level]
  /\ UNCHANGED <<characters, flipped, matched, flippedCards, matchedPairs, timeLeft,
                 score, gameStarted, gameOver, gameWon, powerUps, hintCard, timeouts,
                 intervals, timer, games, player>>
  /\ dirty' = Changed(FALSE)
  /\ ticked' = FALSE

startGame ==
  /\ dirty = {}
  /\ ~gameStarted
  /\ initializeGame
  /\ gameStarted' = TRUE
  /\ UNCHANGED <<timeouts, intervals, timer, player, difficulty>>
  /\ dirty' = Changed(TRUE)
  /\ ticked' = FALSE

PlayAgain ==
  /\ dirty = {}
  /\ gameStarted /\ gameOver
  /\ initializeGame
  /\ UNCHANGED <<gameStarted, timeouts, intervals, timer, player, difficulty>>
  /\ dirty' = Changed(TRUE)
  /\ ticked' = FALSE

MainMenu ==
  /\ dirty = {}
  /\ gameStarted /\ gameOver
  /\ gameStarted' = FALSE
  /\ UNCHANGED <<characters, flipped, matched, flippedCards, matchedPairs,
                 timeLeft, score, gameOver, gameWon, powerUps, hintCard,
                 timeouts, intervals, timer, games, player, difficulty>>
  /\ dirty' = Changed(FALSE)
  /\ ticked' = FALSE

\* ---- handleCardFlip -------------------------------------------------------
\* The guard without its test of gameOver.
FlipRejected_NoGameOver(id) ==
  \/ Len(flippedCards) = 2
  \/ characters[id] \in flipped
  \/ characters[id] \in matched

FlipRejected(id) ==
  \/ Len(flippedCards) = 2
  \/ characters[id] \in flipped
  \/ characters[id] \in matched
  \/ gameOver

\* The handler does not look at gameStarted: on the menu the last deck, if any,
\* is still in characters, and gameOver is still set.
handleCardFlip(id) ==
  /\ dirty = {}
  /\ IF FlipRejected(id) THEN UNCHANGED vars
     ELSE /\ flipped' = flipped \cup {characters[id]}
          /\ characters' = characters
          /\ flippedCards' = Append(flippedCards, id)
          /\ UNCHANGED <<matched, matchedPairs, timeLeft, score, gameStarted,
                         gameOver, gameWon, powerUps, hintCard, timeouts,
                         intervals, timer, games, player, difficulty>>
          /\ dirty' = Changed(TRUE)
          /\ ticked' = FALSE

\* ---- the effects ---------------------------------------------------------
\* A pending setTimeout callback and what its closure captured.  ttl counts
\* the countdown periods that may still pass before it is due.  Two fields
\* only record when it was set: session is the run of initializeGame that was
\* current, faceUp whether the two cards it reverts were then flipped.
Timeout(kind, chars, first, second, ttl) ==
  [kind |-> kind, chars |-> chars, first |-> first, second |-> second,
   ttl |-> ttl, session |-> games,
   faceUp |-> kind = "mismatch" /\ {chars[first], chars[second]} \subseteq flipped]

\* "Check for matches": runs when flippedCards or characters changed.
\* The updater of setScore in the match branch, with a variant that scales the
\* points by the pairs found so far.
AddScore_Streak(prevScore) == prevScore + MatchScore * (matchedPairs + 1)
AddScore(prevScore) == prevScore + MatchScore

MatchEffectRuns == "match" \in dirty /\ Len(flippedCards) = 2
IsMatch == name(characters[flippedCards[1]]) = name(characters[flippedCards[2]])

\* MatchEffect with the match branch forgetting setFlippedCards([]).
MatchEffect_KeepsFlipped ==
  IF MatchEffectRuns /\ IsMatch
  THEN /\ matched' = matched \cup {characters[flippedCards[1]], characters[flippedCards[2]]}
       /\ characters' = characters
       /\ score' = AddScore(score)
       /\ matchedPairs' = matchedPairs + 1
       /\ timeLeft' = timeLeft + MatchBonus
       /\ flippedCards' = flippedCards
       /\ UNCHANGED timeouts
  ELSE /\ timeouts' = IF MatchEffectRuns
                      THEN Append(timeouts, Timeout("mismatch", characters,
                                    flippedCards[1], flippedCards[2], MismatchDelay))
                      ELSE timeouts
       /\ UNCHANGED <<matched, characters, score, matchedPairs, timeLeft, flippedCards>>

MatchEffect ==
  IF MatchEffectRuns /\ IsMatch
  THEN /\ matched' = matched \cup {characters[flippedCards[1]], characters[flippedCards[2]]}
       /\ characters' = characters
       /\ score' = AddScore(score)
       /\ matchedPairs' = matchedPairs + 1
       /\ timeLeft' = timeLeft + MatchBonus
       /\ flippedCards' = <<>>
       /\ UNCHANGED timeouts
  ELSE /\ timeouts' = IF MatchEffectRuns
                      THEN Append(timeouts, Timeout("mismatch", characters,
                                    flippedCards[1], flippedCards[2], MismatchDelay))
                      ELSE timeouts
       /\ UNCHANGED <<matched, characters, score, matchedPairs, timeLeft, flippedCards>>

\* "Check win condition": runs when matchedPairs or gameStarted changed.
WinEffectRuns == "win" \in dirty /\ gameStarted /\ matchedPairs = difficulty.pairs

\* "Timer countdown": runs when gameStarted or gameOver changed; the cleanup
\* of the previous run clears the interval that run created.
NewHandle == 1 + Cardinality(intervals \ {timer})
TimerEffect ==
  IF "timer" \in dirty
  THEN IF ~gameStarted \/ gameOver
       THEN intervals' = intervals \ {timer} /\ timer' = 0
       ELSE intervals' = (intervals \ {timer}) \cup {NewHandle} /\ timer' = NewHandle
  ELSE UNCHANGED <<intervals, timer>>

RunEffects ==
  /\ dirty # {}
  /\ MatchEffect
  /\ gameWon' = (gameWon \/ WinEffectRuns)
  /\ gameOver' = (gameOver \/ WinEffectRuns)
  /\ TimerEffect
  /\ UNCHANGED <<flipped, gameStarted, powerUps, hintCard, games, player, difficulty>>
  /\ dirty' = Changed(MatchEffectRuns /\ IsMatch)
  /\ ticked' = (ticked /\ dirty' # {})

\* ---- the clock ----------------------------------------------------------------
\* Time is counted in periods of the countdown (1000 ms).  A timeout set for n
\* periods is due after n - 1 periods have passed and before an (n + 1)-th
\* does; ttl counts the periods it may still see.
Elapse(touts) == [k \in DOMAIN touts |-> [touts[k] EXCEPT !.ttl = @ - 1]]
MayElapse == \A k \in DOMAIN timeouts : timeouts[k].ttl > 0

\* A countdown that stops at 1 and never ends the game.
Tick_Stalls ==
  /\ dirty # {} => ~ticked
  /\ ticked' = (dirty # {})
  /\ MayElapse
  /\ intervals # {}
  /\ timeLeft' = Max(1, timeLeft - 1)
  /\ timeouts' = Elapse(timeouts)
  /\ UNCHANGED <<characters, flipped, matched, flippedCards, matchedPairs, score,
                 gameStarted, gameWon, powerUps, hintCard, timer, games, player,
                 difficulty, intervals, gameOver>>
  /\ dirty' = dirty \cup Changed(FALSE)

\* One firing of a live interval: the updater passed to setTimeLeft.
Tick ==
  /\ dirty # {} => ~ticked
  /\ ticked' = (dirty # {})
  /\ MayElapse
  /\ \E h \in intervals :
       IF timeLeft <= 1
       THEN /\ intervals' = intervals \ {h}
            /\ gameOver' = TRUE
            /\ timeLeft' = 0
       ELSE /\ timeLeft' = timeLeft - 1
            /\ UNCHANGED <<intervals, gameOver>>
  /\ timeouts' = Elapse(timeouts)
  /\ UNCHANGED <<characters, flipped, matched, flippedCards, matchedPairs, score,
                 gameStarted, gameWon, powerUps, hintCard, timer, games, player, difficulty>>
  /\ dirty' = dirty \cup Changed(FALSE)

\* A period passes while no interval is live (game over, or the menu).
Idle ==
  /\ dirty = {}
  /\ intervals = {}
  /\ timeouts # <<>>
  /\ MayElapse
  /\ timeouts' = Elapse(timeouts)
  /\ UNCHANGED <<characters, flipped, matched, flippedCards, matchedPairs, timeLeft,
                 score, gameStarted, gameOver, gameWon, powerUps, hintCard, intervals,
                 timer, games, player, difficulty, dirty, ticked>>

\* ---- the delayed callbacks --------------------------------------------------
\* Timeouts of equal delay fire in the order they were set; a hint timeout
\* (3000 ms) is due after every timeout that was set before it.
MayFire(k) ==
  /\ timeouts[k].ttl <= 1
  /\ IF timeouts[k].kind = "hint" THEN k = 1
     ELSE \A j \in 1..(k - 1) : timeouts[j].kind # "mismatch"

Penalty(t) == Max(1, t - MismatchPenalty)

\* The callback of the mismatch branch, with the characters, first and second
\* of the render that scheduled it.
MismatchCallback(k) ==
  LET t == timeouts[k] IN
  /\ timeouts' = RemoveAt(timeouts, k)
  /\ characters' = t.chars
  /\ flipped' = (flipped \ {t.chars[t.first], t.chars[t.second]})
                   \cap Live(characters', timeouts')
  /\ matched' = matched \cap Live(characters', timeouts')
  /\ flippedCards' = <<>>
  /\ timeLeft' = Penalty(timeLeft)
  /\ UNCHANGED <<matchedPairs, score, gameStarted, gameOver, gameWon, powerUps,
                 hintCard, intervals, timer, games, player, difficulty>>
  /\ dirty' = Changed(TRUE)
  /\ ticked' = FALSE

HintCallback(k) ==
  /\ timeouts' = RemoveAt(timeouts, k)
  /\ hintCard' = null
  /\ UNCHANGED <<characters, flipped, matched, flippedCards, matchedPairs, timeLeft,
                 score, gameStarted, gameOver, gameWon, powerUps, intervals, timer,
                 games, player, difficulty>>
  /\ dirty' = Changed(FALSE)
  /\ ticked' = FALSE

MismatchTimeout ==
  /\ dirty = {}
  /\ \E k \in DOMAIN timeouts :
       timeouts[k].kind = "mismatch" /\ MayFire(k) /\ MismatchCallback(k)

HintTimeout ==
  /\ dirty = {}
  /\ \E k \in DOMAIN timeouts :
       timeouts[k].kind = "hint" /\ MayFire(k) /\ HintCallback(k)

\* ---- usePowerUp -------------------------------------------------------------
\* The guard without its test of the counter.
PowerUpRejected_NoCount(type) == gameOver \/ ~gameStarted
PowerUpRejected(type) == powerUps[type] <= 0 \/ gameOver \/ ~gameStarted

\* The deck positions of the cards that are not matched, ascending.
unmatchedIndices ==
  SelectSeq([i \in 1..Len(characters) |-> i], LAMBDA i : characters[i] \notin matched)

Swap(arr, a, b) == [arr EXCEPT ![a] = arr[b], ![b] = arr[a]]

\* The Fisher-Yates loop from position i of idx down: every outcome of its draws.
RECURSIVE FisherYates(_, _, _)
FisherYates(arr, idx, i) ==
  IF i <= 1 THEN {arr}
  ELSE UNION {FisherYates(Swap(arr, idx[i], idx[j]), idx, i - 1) : j \in 1..i}

\* The positions the hint may pick: a card of a name that two unmatched cards carry.
unmatchedPairs ==
  {p \in DOMAIN characters :
     /\ characters[p] \notin matched
     /\ Cardinality({q \in DOMAIN characters :
                       characters[q] \notin matched
                       /\ name(characters[q]) = name(characters[p])}) = 2}

usePowerUp(type) ==
  /\ dirty = {}
  /\ IF PowerUpRejected(type) THEN UNCHANGED vars
     ELSE /\ powerUps' = [powerUps EXCEPT ![type] = @ - 1]
          /\ CASE type = "shuffle" ->
                    /\ \E arr \in FisherYates(characters, unmatchedIndices,
                                              Len(unmatchedIndices)) :
                         characters' = arr
                    /\ UNCHANGED <<hintCard, timeouts, timeLeft>>
                    /\ dirty' = {"match"}
                    /\ ticked' = FALSE
               [] type = "hint" ->
                    /\ IF unmatchedPairs # {}
                       THEN \E p \in unmatchedPairs :
                              /\ hintCard' = p
                              /\ timeouts' = Append(timeouts,
                                               Timeout("hint", <<>>, 1, 1, HintDelay))
                       ELSE UNCHANGED <<hintCard, timeouts>>
                    /\ UNCHANGED <<characters, timeLeft>>
                    /\ dirty' = {}
                    /\ ticked' = FALSE
               [] type = "slowTime" ->
                    /\ timeLeft' = timeLeft + SlowTimeBonus
                    /\ UNCHANGED <<characters, hintCard, timeouts>>
                    /\ dirty' = {}
                    /\ ticked' = FALSE
          /\ UNCHANGED <<flipped, matched, flippedCards, matchedPairs, score,
                         gameStarted, gameOver, gameWon, intervals, timer, games, player, difficulty>>

PowerUpType == {"shuffle", "hint", "slowTime"}

\* ---- the session as the specification names it ------------------------------
Phase ==
  IF ~gameStarted THEN "NotStarted"
  ELSE IF ~gameOver THEN "Playing"
  ELSE IF gameWon THEN "Won" ELSE "Lost"

CardState(c) ==
  IF c \in matched THEN "Matched" ELSE IF c \in flipped THEN "FaceUp" ELSE "FaceDown"

\* The deck as the presentation layer sees it: each position's card and its state.
Deck == [p \in DOMAIN characters |-> <<characters[p], CardState(characters[p])>>]
CardStateNext(c) ==
  IF c \in matched' THEN "Matched" ELSE IF c \in flipped' THEN "FaceUp" ELSE "FaceDown"
DeckNext == [p \in DOMAIN characters' |-> <<characters'[p], CardStateNext(characters'[p])>>]

\* The step runs the callback of timeouts[k].
Fires(k) == Len(timeouts') = Len(timeouts) - 1 /\ timeouts' = RemoveAt(timeouts, k)

\* C1: a delayed callback (mismatch reversion, hint expiry) that fires in a later
\* session than the one that scheduled it changes nothing of that session: not the
\* deck (order, card states), faceUp, timeLeft nor hinted.
C1_StaleCallbackIsNoOp ==
  [][\A k \in DOMAIN timeouts :
       (Fires(k) /\ timeouts[k].session # games) =>
         /\ DeckNext = Deck
         /\ flippedCards' = flippedCards
         /\ timeLeft' = timeLeft
         /\ hintCard' = hintCard]_vars

\* C2: once the phase is Lost (and the effects of the losing commit have run),
\* no later event - intent, tick or delayed callback - changes score or timeLeft
\* until initializeGame replaces the session.
C2_LostFreezesScoreAndTime ==
  [][(Phase = "Lost" /\ dirty = {} /\ games' = games) =>
       (score' = score /\ timeLeft' = timeLeft)]_vars

\* C3: when the reversion callback of two face-up cards of differing names fires,
\* both cards are FaceDown and faceUp is empty.
C3_MismatchRevertsBoth ==
  [][\A k \in DOMAIN timeouts :
       (Fires(k) /\ timeouts[k].faceUp /\ timeouts[k].session = games) =>
         LET t == timeouts[k] IN
         /\ CardStateNext(t.chars[t.first]) = "FaceDown"
         /\ CardStateNext(t.chars[t.second]) = "FaceDown"
         /\ flippedCards' = <<>>]_vars

\* C4: one pair of mismatched flips has one reversion pending, so its 2-second
\* penalty is applied once: no two pending reversion callbacks of a session are
\* for the same faceUp contents.
C4_OnePenaltyPerMismatch ==
  \A j, k \in DOMAIN timeouts :
    (/\ j # k
     /\ timeouts[j].kind = "mismatch" /\ timeouts[k].kind = "mismatch"
     /\ timeouts[j].session = games /\ timeouts[k].session = games)
    => <<timeouts[j].first, timeouts[j].second>> # <<timeouts[k].first, timeouts[k].second>>

\* C5: within a session the phase never goes from Won to Lost nor from Lost to
\* Won; a terminal phase is left only by initializeGame or the return to the menu.
C5_WinLossExclusive ==
  [][games' = games =>
       /\ (Phase = "Won" => Phase' # "Lost")
       /\ (Phase = "Lost" => Phase' # "Won")]_vars

\* C6: a started session with matchedPairs = difficulty.pairs is never still
\* Playing, and the phase is Won only with matchedPairs = difficulty.pairs.
C6_WonWithTheLastMatch ==
  /\ (gameStarted /\ matchedPairs = difficulty.pairs) => Phase # "Playing"
  /\ Phase = "Won" => matchedPairs = difficulty.pairs

\* C7: the Shuffle power-up leaves every position that holds a Matched or a
\* FaceUp card as it was, and the deck holds the same cards after it.
C7_ShuffleMovesFaceDownOnly ==
  [][powerUps'.shuffle < powerUps.shuffle =>
       /\ \A p \in DOMAIN characters :
            CardState(characters[p]) # "FaceDown" => characters'[p] = characters[p]
       /\ Range(characters') = Range(characters)
       /\ Len(characters') = Len(characters)]_vars

\* The positions of the cards of an intact, unrevealed pair: a name that
\* exactly two FaceDown cards carry.
IntactPairs ==
  {p \in DOMAIN characters :
     /\ CardState(characters[p]) = "FaceDown"
     /\ Cardinality({q \in DOMAIN characters :
                       /\ CardState(characters[q]) = "FaceDown"
                       /\ name(characters[q]) = name(characters[p])}) = 2}

\* C8: a Hint use marks a card of an intact, unrevealed pair, or marks nothing
\* when there is none; it changes no card state and not faceUp.
C8_HintPicksIntactPair ==
  [][powerUps'.hint < powerUps.hint =>
       /\ IF IntactPairs = {} THEN hintCard' = hintCard /\ timeouts' = timeouts
          ELSE hintCard' \in IntactPairs
       /\ DeckNext = Deck
       /\ flippedCards' = flippedCards]_vars

NumHints(touts) == Cardinality({k \in DOMAIN touts : touts[k].kind = "hint"})

\* C9: while Playing, a hinted card stays hinted until the expiry of its own Hint
\* use: the hint changes only by a new Hint use, by initializeGame, or by the
\* expiry callback of the use that set it (the last hint timeout scheduled).
C9_HintLastsItsOwnDelay ==
  [][(Phase = "Playing" /\ Phase' = "Playing" /\ hintCard # null /\ hintCard' # hintCard) =>
       \/ games' # games
       \/ powerUps'.hint < powerUps.hint
       \/ (NumHints(timeouts') < NumHints(timeouts) /\ NumHints(timeouts') = 0)]_vars

\* C10: while Playing, faceUp holds at most two entries and they are distinct.
C10_FaceUpAtMostTwoDistinct ==
  Phase = "Playing" =>
    /\ Len(flippedCards) <= 2
    /\ \A i, j \in DOMAIN flippedCards : i # j => flippedCards[i] # flippedCards[j]

\* Two distinct deck positions are listed face-up, and the cards there are both
\* FaceUp and carry one name.
FaceUpPairOfOneName ==
  /\ Len(flippedCards) = 2
  /\ flippedCards[1] # flippedCards[2]
  /\ CardState(characters[flippedCards[1]]) = "FaceUp"
  /\ CardState(characters[flippedCards[2]]) = "FaceUp"
  /\ name(characters[flippedCards[1]]) = name(characters[flippedCards[2]])

C12_MatchedStaysMatched ==
  [][games' = games =>
       \A c \in Range(characters) :
         CardState(c) = "Matched" => (c \in Range(characters') /\ CardStateNext(c) = "Matched")]_vars

\* C13: within a session score never decreases, and a step that changes it is a
\* match resolution - two listed positions whose cards carry one name are
\* resolved, matchedPairs grows by one - and raises it by exactly 10.
C13_ScoreOnlyByMatch ==
  [][(games' = games /\ score' # score) =>
       /\ score' = score + 10
       /\ Len(flippedCards) = 2
       /\ name(characters[flippedCards[1]]) = name(characters[flippedCards[2]])
       /\ flippedCards' = <<>>
       /\ matchedPairs' = matchedPairs + 1]_vars

\* C13 witness: both pairs were matched in a session that also saw a mismatch
\* penalty or a tick (timeLeft is not the limit plus the two bonuses).
C13_Witness ==
  /\ score = 2 * MatchScore
  /\ gameWon
  /\ timeLeft # difficulty.timeLimit + 2 * MatchBonus

\* C14: a firing of the countdown happens only while Playing, takes exactly 1
\* from timeLeft and never takes it below 0; the firing that reaches 0 makes the
\* phase Lost; and at most one countdown interval is live.
C14_Countdown ==
  /\ [](Cardinality(intervals) <= 1)
  /\ [][Tick =>
          /\ Phase = "Playing"
          /\ timeLeft' = timeLeft - 1
          /\ timeLeft' >= 0
          /\ (timeLeft' = 0 => Phase' = "Lost")]_vars

\* C15: no power-up counter is negative or above its initial value (so a session
\* sees at most 1 Shuffle, 2 Hints, 1 SlowTime); a step that changes a counter
\* starts in Playing with that counter positive, takes exactly 1 from it and
\* touches only what its power-up is about, SlowTime adding exactly 10 to
\* timeLeft; and timeLeft grows by 10 only in such a SlowTime step.
C15_PowerUpCounters ==
  /\ [](/\ powerUps.shuffle \in 0..1
        /\ powerUps.hint \in 0..2
        /\ powerUps.slowTime \in 0..1)
  /\ [][(games' = games /\ powerUps' # powerUps) =>
          \E type \in PowerUpType :
            /\ Phase = "Playing"
            /\ powerUps[type] > 0
            /\ powerUps' = [powerUps EXCEPT ![type] = @ - 1]
            /\ timeLeft' = IF type = "slowTime" THEN timeLeft + 10 ELSE timeLeft
            /\ type # "shuffle" => characters' = characters
            /\ type # "hint" => hintCard' = hintCard /\ timeouts' = timeouts
            /\ <<flipped, matched, flippedCards, score, matchedPairs>>' =
                 <<flipped, matched, flippedCards, score, matchedPairs>>]_vars
  /\ [][(games' = games /\ timeLeft' = timeLeft + 10) =>
          powerUps'.slowTime = powerUps.slowTime - 1]_vars

\* C15 witness: both Hint uses and the SlowTime use of a session are spent.
C15_Witness ==
  /\ Phase = "Playing"
  /\ powerUps.hint = 0
  /\ powerUps.slowTime = 0

\* The intents the specification calls invalid.
InvalidFlip(id) ==
  \/ CardState(characters[id]) \in {"Matched", "FaceUp"}
  \/ Len(flippedCards) = 2
  \/ Phase # "Playing"
InvalidPowerUp(type) == powerUps[type] <= 0 \/ Phase # "Playing"

\* C16: a flip of a Matched or FaceUp card, a flip while two positions are
\* listed face-up, a flip outside Playing, and a power-up with no use left or
\* outside Playing change nothing of the state.
C16_InvalidIntentsAreNoOps ==
  [][/\ \A id \in DOMAIN characters :
          (InvalidFlip(id) /\ handleCardFlip(id)) => UNCHANGED vars
     /\ \A type \in PowerUpType :
          (InvalidPowerUp(type) /\ usePowerUp(type)) => UNCHANGED vars]_vars

\* C16 witness: on the menu after a lost session, with a card left face-up, a
\* card never flipped and power-ups unused.
C16_Witness ==
  /\ Phase = "NotStarted"
  /\ Len(flippedCards) = 1
  /\ \E p \in DOMAIN characters : CardState(characters[p]) = "FaceDown"
  /\ \E type \in PowerUpType : powerUps[type] > 0

\* C17: in every state of a started session the deck has 2 x difficulty.pairs
\* cards and every name in it is carried by exactly two of them.
C17_DeckOfPairs ==
  gameStarted =>
    /\ Len(characters) = 2 * difficulty.pairs
    /\ \A p \in DOMAIN characters :
         Cardinality({q \in DOMAIN characters :
                        name(characters[q]) = name(characters[p])}) = 2

\* C18: a run of initializeGame by Start or Play Again, from whatever state,
\* gives a session in Playing with timeLeft = difficulty.timeLimit, score 0,
\* matchedPairs 0, the power-up counts 1, 2, 1, nothing listed face-up, no hint
\* and every card of the deck FaceDown.
C18_StartResets ==
  [][games' # games =>
       /\ Phase' = "Playing"
       /\ timeLeft' = difficulty'.timeLimit
       /\ score' = 0
       /\ matchedPairs' = 0
       /\ powerUps' = [shuffle |-> 1, hint |-> 2, slowTime |-> 1]
       /\ flippedCards' = <<>>
       /\ hintCard' = null
       /\ Len(characters') = 2 * difficulty'.pairs
       /\ \A p \in DOMAIN characters' : CardStateNext(characters'[p]) = "FaceDown"]_vars

\* C18 witness: a second session, at the other level, just started.
C18_Witness ==
  /\ games = 2
  /\ difficulty = difficultyLevels[2]
  /\ Phase = "Playing"
  /\ timeLeft = difficulty.timeLimit
  /\ dirty # {}

\* C20: while Playing, the positions listed in flippedCards are positions of the
\* deck and are exactly those that hold a FaceUp card.
C20_FaceUpListIsExact ==
  Phase = "Playing" =>
    /\ Range(flippedCards) \subseteq DOMAIN characters
    /\ Range(flippedCards) =
         {p \in DOMAIN characters : CardState(characters[p]) = "FaceUp"}

\* C21: in every state the deck holds 2 x matchedPairs Matched cards, score is
\* 10 x matchedPairs, and matchedPairs is between 0 and difficulty.pairs.
C21_MatchedCountAndScore ==
  /\ Cardinality({p \in DOMAIN characters : CardState(characters[p]) = "Matched"})
       = 2 * matchedPairs
  /\ score = 10 * matchedPairs
  /\ matchedPairs \in 0..difficulty.pairs

\* C22: while Playing timeLeft is at least 1; a mismatch penalty of a Playing
\* session never raises timeLeft; timeLeft rises within a Playing session only by
\* 5 with a counted match or by 10 with the one SlowTime; and every Playing
\* session reaches Won or Lost, given that the countdown keeps firing.
C22_SessionEnds ==
  /\ [](Phase = "Playing" => timeLeft >= 1)
  /\ [][(/\ Phase = "Playing"
          /\ \E k \in DOMAIN timeouts : timeouts[k].kind = "mismatch" /\ Fires(k))
            => timeLeft' <= timeLeft]_vars
  /\ [][(Phase = "Playing" /\ gameStarted' /\ ~gameOver' /\ timeLeft' > timeLeft)
            => \/ /\ timeLeft' = timeLeft + MatchBonus
                  /\ matchedPairs' = matchedPairs + 1
               \/ /\ timeLeft' = timeLeft + SlowTimeBonus
                  /\ powerUps.slowTime = 1
                  /\ powerUps'.slowTime = 0]_vars
  /\ (Phase = "Playing") ~> (Phase \in {"Won", "Lost"})

\* A session that gained time by a match and by SlowTime and was lost all the same.
C22_Witness == Phase = "Lost" /\ matchedPairs > 0 /\ powerUps.slowTime = 0

\* ---- board generation for any number of pairs ---------------------------------
\* The levels of the source ask for at most as many pairs as there are templates.
\* GenSpec starts the game at a level that asks for any number of pairs up to one
\* more than that, and plays it without power-ups.
GenInit ==
  /\ difficulty \in {[pairs |-> n, timeLimit |-> TimeLimit] : n \in 1..(PoolSize + 1)}
  /\ characters = <<>>
  /\ flipped = {}
  /\ matched = {}
  /\ flippedCards = <<>>
  /\ matchedPairs = 0
  /\ timeLeft = TimeLimit
  /\ score = 0
  /\ gameStarted = FALSE
  /\ gameOver = FALSE
  /\ gameWon = FALSE
  /\ powerUps = [shuffle |-> 1, hint |-> 2, slowTime |-> 1]
  /\ hintCard = null
  /\ timeouts = <<>>
  /\ intervals = {}
  /\ timer = 0
  /\ games = 0
  /\ player = [offers |-> {}, sessions |-> 1, levels |-> {}]
  /\ ticked = FALSE
  /\ dirty = {}

GenNext ==
  \/ startGame
  \/ \E id \in DOMAIN characters : handleCardFlip(id)
  \/ RunEffects
  \/ Tick
  \/ MismatchTimeout

GenSpec == GenInit /\ [][GenNext]_vars

Init ==
  /\ difficulty = difficultyLevels[1]
  /\ characters = <<>>
  /\ flipped = {}
  /\ matched = {}
  /\ flippedCards = <<>>
  /\ matchedPairs = 0
  /\ timeLeft = difficultyLevels[1].timeLimit
  /\ score = 0
  /\ gameStarted = FALSE
  /\ gameOver = FALSE
  /\ gameWon = FALSE
  /\ powerUps = [shuffle |-> 1, hint |-> 2, slowTime |-> 1]
  /\ hintCard = null
  /\ timeouts = <<>>
  /\ intervals = {}
  /\ timer = 0
  /\ games = 0
  /\ player \in Players
  /\ ticked = FALSE
  /\ dirty = {}

Next ==
  \/ \E level \in player.levels : setDifficulty(level)
  \/ startGame
  \/ PlayAgain
  \/ MainMenu
  \/ \E id \in DOMAIN characters : handleCardFlip(id)
  \/ \E type \in player.offers : usePowerUp(type)
  \/ RunEffects
  \/ Tick
  \/ Idle
  \/ MismatchTimeout
  \/ HintTimeout

Spec == Init /\ [][Next]_vars

\* The runtime runs what it has queued: the effects of a commit, a due timeout
\* callback, the next firing of a live interval.  A timeout callback waits for
\* the effects of the commit before it, so it is enabled off and on while the
\* player clicks; the event loop still runs it, hence strong fairness.
Fairness ==
  /\ WF_vars(RunEffects)
  /\ SF_vars(MismatchTimeout)
  /\ SF_vars(HintTimeout)
  /\ WF_vars(Tick)

\* The players of the runs checked under fairness: every profile but the one
\* that takes hints across several sessions.
FairPlayers == {p \in Players : ~(p.offers = {"hint"} /\ p.sessions > 1)}

FairInit == Init /\ player \in FairPlayers

FairSpec == FairInit /\ [][Next]_vars /\ Fairness
====
